---- MODULE Spec2Model ----
(***************************************************************************)
(* Model of charon's message_t (src/Source/charon/message.c): one IKEv2    *)
(* message, its payload chain, the rule table, generate, parse_header,     *)
(* parse_body, get_ike_sa_id and destroy.  The generator, parser, payload, *)
(* ike_header, ike_sa_id and packet classes are not part of the shown      *)
(* sources; they are modelled after the interfaces message.c uses and the  *)
(* wire layout of spec.md section 6.                                       *)
(***************************************************************************)
EXTENDS Integers, Sequences, FiniteSets, TLC

(* ------------------------------ bounds --------------------------------- *)
\* longest body (in payloads) of a received packet
MaxWire == 3
\* longest payload chain a message is driven to
MaxChain == 4
\* longest payload chain of an outbound message
MaxOut == 3
\* most resource exhaustions (failed allocations) injected into the
\* collaborators during the life of one message
MaxFaults == 1
\* longest chain to which the owner of a received message still adds a
\* payload of its own
MaxAdded == 1

(* ------------------------------ status_t ------------------------------- *)
SUCCESS == "SUCCESS"
FAILED == "FAILED"
OUT_OF_RES == "OUT_OF_RES"
NOT_SUPPORTED == "NOT_SUPPORTED"
INVALID_STATE == "INVALID_STATE"
VERIFY_ERROR == "VERIFY_ERROR"
PARSE_ERROR == "PARSE_ERROR"
NOT_FOUND == "NOT_FOUND"
\* outcome of dereferencing a NULL ike_sa_id: the process is killed
SEGV == "SEGV"

(* --------------------------- payload_type_t ---------------------------- *)
NO_PAYLOAD == "NO_PAYLOAD"
SECURITY_ASSOCIATION == "SECURITY_ASSOCIATION"
KEY_EXCHANGE == "KEY_EXCHANGE"
NONCE == "NONCE"
NOTIFY == "NOTIFY"
HEADER == "HEADER"

(* --------------------------- exchange_type_t --------------------------- *)
EXCHANGE_TYPE_UNDEFINED == "EXCHANGE_TYPE_UNDEFINED"
IKE_SA_INIT == "IKE_SA_INIT"
IKE_AUTH == "IKE_AUTH"

NULL == "NULL"

(* ------------------------------ rule table ----------------------------- *)
supported_ike_sa_init_i_payloads ==
    << [payload_type |-> SECURITY_ASSOCIATION, min_occurence |-> 1, max_occurence |-> 1],
       [payload_type |-> KEY_EXCHANGE, min_occurence |-> 1, max_occurence |-> 1],
       [payload_type |-> NONCE, min_occurence |-> 1, max_occurence |-> 1] >>

supported_ike_sa_init_r_payloads ==
    << [payload_type |-> SECURITY_ASSOCIATION, min_occurence |-> 1, max_occurence |-> 1],
       [payload_type |-> KEY_EXCHANGE, min_occurence |-> 1, max_occurence |-> 1],
       [payload_type |-> NONCE, min_occurence |-> 1, max_occurence |-> 1] >>

message_rules ==
    << [exchange_type |-> IKE_SA_INIT, is_request |-> TRUE,
        supported_payloads |-> supported_ike_sa_init_i_payloads],
       [exchange_type |-> IKE_SA_INIT, is_request |-> FALSE,
        supported_payloads |-> supported_ike_sa_init_r_payloads] >>

\* the static array message_rules as it stands in memory; the program
\* never writes to it
VARIABLE rules

\* linear scan of message_rules: the first row matching both keys
get_supported_payloads(et, req) ==
    LET hits == {i \in 1..Len(rules) :
                    /\ et = rules[i].exchange_type
                    /\ req = rules[i].is_request}
    IN  IF hits = {}
        THEN [status |-> NOT_FOUND, supported_payloads |-> <<>>]
        ELSE LET i == CHOOSE k \in hits : \A j \in hits : k <= j
             IN  [status |-> SUCCESS,
                  supported_payloads |-> rules[i].supported_payloads]

(* ------------------------- wire encoding (codec) ----------------------- *)
\* numeric codes of the next-payload field
PayloadCode ==
    [NO_PAYLOAD |-> 0, SECURITY_ASSOCIATION |-> 33, KEY_EXCHANGE |-> 34,
     NONCE |-> 40, NOTIFY |-> 41]

PayloadTypes == DOMAIN PayloadCode

DecodePayloadType(c) ==
    IF \E t \in PayloadTypes : PayloadCode[t] = c
    THEN CHOOSE t \in PayloadTypes : PayloadCode[t] = c
    ELSE "PAYLOAD_TYPE_" \o ToString(c)

\* numeric codes of the exchange-type field
ExchangeCode ==
    [IKE_SA_INIT |-> 34, IKE_AUTH |-> 35, EXCHANGE_TYPE_UNDEFINED |-> 240]

ExchangeTypes == DOMAIN ExchangeCode

DecodeExchangeType(c) ==
    IF \E t \in ExchangeTypes : ExchangeCode[t] = c
    THEN CHOOSE t \in ExchangeTypes : ExchangeCode[t] = c
    ELSE "EXCHANGE_TYPE_" \o ToString(c)

\* the fixed header occupies eight fields: initiator SPI, responder SPI,
\* next payload, version, exchange type, flags, message id, length
HeaderFields == 8
\* a body payload occupies three fields: next payload, length, content
PayloadFields == 3
\* protocol version an ike_header is created with and verified against
IKE_MAJOR_VERSION == 2
IKE_MINOR_VERSION == 0

\* flags byte: initiator bit (0x08) and response bit (0x20)
EncodeFlags(initiator, response) ==
    (IF initiator THEN 8 ELSE 0) + (IF response THEN 32 ELSE 0)

FlagInitiator(f) == (f \div 8) % 2 = 1
FlagResponse(f) == (f \div 32) % 2 = 1

\* content field of a body payload: the payload-specific layout, which only
\* decodes under the encoding rules of its own type, and whether the
\* decoded content passes the payload's verify()
EncodeContent(type, valid) == 2 * PayloadCode[type] + (IF valid THEN 1 ELSE 0)

\* ike_header_create(): a header with the default version, everything else
\* to be set by the caller
ike_header_create ==
    [type |-> HEADER, next |-> NO_PAYLOAD,
     initiator_spi |-> 0, responder_spi |-> 0,
     maj_version |-> IKE_MAJOR_VERSION, min_version |-> IKE_MINOR_VERSION,
     exchange_type |-> EXCHANGE_TYPE_UNDEFINED,
     initiator |-> TRUE, response |-> FALSE, message_id |-> 0, length |-> 0]

EncodeHeader(h) ==
    << h.initiator_spi, h.responder_spi, PayloadCode[h.next],
       16 * h.maj_version + h.min_version, ExchangeCode[h.exchange_type],
       EncodeFlags(h.initiator, h.response), h.message_id, h.length >>

EncodePayload(p) ==
    << PayloadCode[p.next], PayloadFields, EncodeContent(p.type, p.valid) >>

\* generator_t.generate_payload: appends the encoding of one payload
generate_payload(gen, p) ==
    gen \o (IF p.type = HEADER THEN EncodeHeader(p) ELSE EncodePayload(p))

\* generator_t.write_to_chunk: the accumulated bytes, with the header's
\* length field set to the total length
write_to_chunk(gen) ==
    IF Len(gen) >= HeaderFields THEN [gen EXCEPT ![HeaderFields] = Len(gen)] ELSE gen

\* parser_t.parse_payload(HEADER): decodes the fixed header at the parser's
\* position
parse_payload_header(psr, oom) ==
    LET d == psr.data
        o == psr.pos
    IN  IF oom
        THEN [status |-> OUT_OF_RES, parser |-> psr, payload |-> ike_header_create]
        ELSE IF Len(d) - o < HeaderFields
        THEN [status |-> PARSE_ERROR, parser |-> psr, payload |-> ike_header_create]
        ELSE [status |-> SUCCESS,
              parser |-> [psr EXCEPT !.pos = o + HeaderFields],
              payload |->
                [type |-> HEADER, next |-> DecodePayloadType(d[o + 3]),
                 initiator_spi |-> d[o + 1], responder_spi |-> d[o + 2],
                 maj_version |-> d[o + 4] \div 16, min_version |-> d[o + 4] % 16,
                 exchange_type |-> DecodeExchangeType(d[o + 5]),
                 initiator |-> FlagInitiator(d[o + 6]),
                 response |-> FlagResponse(d[o + 6]),
                 message_id |-> d[o + 7], length |-> d[o + 8]]]

\* ike_header_t.verify: version sanity
verify_header(h) == IF h.maj_version = IKE_MAJOR_VERSION THEN SUCCESS ELSE FAILED

NoPayloadObject == [type |-> NO_PAYLOAD, next |-> NO_PAYLOAD, valid |-> FALSE]

\* does the content field c carry the layout of a payload of this type
ContentFits(type, c) ==
    /\ type \in PayloadTypes
    /\ c \div 2 = PayloadCode[type]

\* parser_t.parse_payload(type): decodes one body payload of the expected
\* type at the parser's position
parse_payload(psr, type, oom) ==
    LET d == psr.data
        o == psr.pos
    IN  IF oom
        THEN [status |-> OUT_OF_RES, parser |-> psr, payload |-> NoPayloadObject]
        ELSE IF \/ Len(d) - o < PayloadFields
                \/ d[o + 2] # PayloadFields
                \/ ~ContentFits(type, d[o + 3])
        THEN [status |-> PARSE_ERROR, parser |-> psr, payload |-> NoPayloadObject]
        ELSE [status |-> SUCCESS,
              parser |-> [psr EXCEPT !.pos = o + PayloadFields],
              payload |-> [type |-> type, next |-> DecodePayloadType(d[o + 1]),
                           valid |-> d[o + 3] % 2 = 1]]

\* payload_t.verify of a body payload
verify(p) == IF p.valid THEN SUCCESS ELSE FAILED

(* ------------------------------ ike_sa_id_t ---------------------------- *)
\* a NULL ike_sa_id pointer
NullIkeSaId ==
    [null |-> TRUE, initiator_spi |-> 0, responder_spi |-> 0, is_initiator |-> FALSE]

ike_sa_id_create(ispi, rspi, init) ==
    [null |-> FALSE, initiator_spi |-> ispi, responder_spi |-> rspi,
     is_initiator |-> init]

(* --------------------------- parse_body, pure -------------------------- *)
SupportedTypes(rule) == {rule[i].payload_type : i \in 1..Len(rule)}

RECURSIVE DecodeLoopUnchecked(_, _, _, _, _, _, _, _)
\* mutant of DecodeLoop: the admissibility check is left out
DecodeLoopUnchecked(rule, cur, psr, chain, asked, visited, calls, fault) ==
    IF cur = NO_PAYLOAD
    THEN [status |-> SUCCESS, parser |-> psr, chain |-> chain, asked |-> asked,
          visited |-> visited, calls |-> calls, step |-> "none"]
    ELSE
      LET r == parse_payload(psr, cur, fault = calls + 1)
          asked2 == Append(asked, cur)
          visited2 == Append(visited, cur)
      IN  IF r.status # SUCCESS
          THEN [status |-> r.status, parser |-> r.parser, chain |-> chain,
                asked |-> asked2, visited |-> visited2, calls |-> calls + 1,
                step |-> "parse"]
          ELSE IF verify(r.payload) # SUCCESS
          THEN [status |-> VERIFY_ERROR, parser |-> r.parser, chain |-> chain,
                asked |-> asked2, visited |-> visited2, calls |-> calls + 1,
                step |-> "verify"]
          ELSE IF fault = calls + 2
          THEN [status |-> OUT_OF_RES, parser |-> r.parser, chain |-> chain,
                asked |-> asked2, visited |-> visited2, calls |-> calls + 2,
                step |-> "insert"]
          ELSE DecodeLoopUnchecked(rule, r.payload.next, r.parser,
                                   Append(chain, r.payload), asked2, visited2,
                                   calls + 2, fault)

RECURSIVE DecodeLoopVerifyStatus(_, _, _, _, _, _, _, _)
\* mutant of DecodeLoop: the status of verify() is passed on
DecodeLoopVerifyStatus(rule, cur, psr, chain, asked, visited, calls, fault) ==
    IF cur = NO_PAYLOAD
    THEN [status |-> SUCCESS, parser |-> psr, chain |-> chain, asked |-> asked,
          visited |-> visited, calls |-> calls, step |-> "none"]
    ELSE IF cur \notin SupportedTypes(rule)
    THEN [status |-> NOT_SUPPORTED, parser |-> psr, chain |-> chain,
          asked |-> asked, visited |-> Append(visited, cur), calls |-> calls,
          step |-> "admit"]
    ELSE
      LET r == parse_payload(psr, cur, fault = calls + 1)
          asked2 == Append(asked, cur)
          visited2 == Append(visited, cur)
      IN  IF r.status # SUCCESS
          THEN [status |-> r.status, parser |-> r.parser, chain |-> chain,
                asked |-> asked2, visited |-> visited2, calls |-> calls + 1,
                step |-> "parse"]
          ELSE IF verify(r.payload) # SUCCESS
          THEN [status |-> verify(r.payload), parser |-> r.parser, chain |-> chain,
                asked |-> asked2, visited |-> visited2, calls |-> calls + 1,
                step |-> "verify"]
          ELSE IF fault = calls + 2
          THEN [status |-> OUT_OF_RES, parser |-> r.parser, chain |-> chain,
                asked |-> asked2, visited |-> visited2, calls |-> calls + 2,
                step |-> "insert"]
          ELSE DecodeLoopVerifyStatus(rule, r.payload.next, r.parser,
                                      Append(chain, r.payload), asked2, visited2,
                                      calls + 2, fault)

RECURSIVE DecodeLoop(_, _, _, _, _, _, _, _)
\* the while loop of parse_body.  cur is current_payload_type, calls the
\* number of fallible collaborator calls made so far in this parse_body and
\* fault the index of the call that runs out of resources (0: none).
DecodeLoop(rule, cur, psr, chain, asked, visited, calls, fault) ==
    IF cur = NO_PAYLOAD
    THEN [status |-> SUCCESS, parser |-> psr, chain |-> chain, asked |-> asked,
          visited |-> visited, calls |-> calls, step |-> "none"]
    ELSE IF cur \notin SupportedTypes(rule)
    THEN [status |-> NOT_SUPPORTED, parser |-> psr, chain |-> chain,
          asked |-> asked, visited |-> Append(visited, cur), calls |-> calls,
          step |-> "admit"]
    ELSE
      LET r == parse_payload(psr, cur, fault = calls + 1)
          asked2 == Append(asked, cur)
          visited2 == Append(visited, cur)
      IN  IF r.status # SUCCESS
          THEN [status |-> r.status, parser |-> r.parser, chain |-> chain,
                asked |-> asked2, visited |-> visited2, calls |-> calls + 1,
                step |-> "parse"]
          ELSE IF verify(r.payload) # SUCCESS
          THEN [status |-> VERIFY_ERROR, parser |-> r.parser, chain |-> chain,
                asked |-> asked2, visited |-> visited2, calls |-> calls + 1,
                step |-> "verify"]
          ELSE IF fault = calls + 2
          THEN \* insert_last failed
               [status |-> OUT_OF_RES, parser |-> r.parser, chain |-> chain,
                asked |-> asked2, visited |-> visited2, calls |-> calls + 2,
                step |-> "insert"]
          ELSE DecodeLoop(rule, r.payload.next, r.parser,
                          Append(chain, r.payload), asked2, visited2,
                          calls + 2, fault)

NoStop == [entry |-> 0, pos |-> 0, kind |-> "none"]

RECURSIVE ScanEntryNoMax(_, _, _, _)
\* mutant of ScanEntry: the maximum is never compared
ScanEntryNoMax(entry, chain, j, found) ==
    IF j > Len(chain)
    THEN [over |-> FALSE, pos |-> j, found |-> found]
    ELSE IF chain[j].type = entry.payload_type
    THEN ScanEntryNoMax(entry, chain, j + 1, found + 1)
    ELSE ScanEntryNoMax(entry, chain, j + 1, found)

RECURSIVE ScanEntryLate(_, _, _, _)
\* mutant of ScanEntry: the maximum is compared after the whole chain has
\* been counted
ScanEntryLate(entry, chain, j, found) ==
    IF j > Len(chain)
    THEN [over |-> found > entry.max_occurence, pos |-> j, found |-> found]
    ELSE IF chain[j].type = entry.payload_type
    THEN ScanEntryLate(entry, chain, j + 1, found + 1)
    ELSE ScanEntryLate(entry, chain, j + 1, found)

RECURSIVE ScanEntryLeading(_, _, _, _)
\* mutant of ScanEntry: the walk ends at the first payload of another type
ScanEntryLeading(entry, chain, j, found) ==
    IF j > Len(chain)
    THEN [over |-> FALSE, pos |-> j, found |-> found]
    ELSE IF chain[j].type = entry.payload_type
    THEN IF found + 1 > entry.max_occurence
         THEN [over |-> TRUE, pos |-> j, found |-> found + 1]
         ELSE ScanEntryLeading(entry, chain, j + 1, found + 1)
    ELSE [over |-> FALSE, pos |-> j, found |-> found]

RECURSIVE ScanEntry(_, _, _, _)
\* the inner while loop of the counting pass for one rule entry: walks the
\* chain from position j with found_payloads = found
ScanEntry(entry, chain, j, found) ==
    IF j > Len(chain)
    THEN [over |-> FALSE, pos |-> j, found |-> found]
    ELSE IF chain[j].type = entry.payload_type
    THEN IF found + 1 > entry.max_occurence
         THEN [over |-> TRUE, pos |-> j, found |-> found + 1]
         ELSE ScanEntry(entry, chain, j + 1, found + 1)
    ELSE ScanEntry(entry, chain, j + 1, found)

RECURSIVE CheckRulesNoMin(_, _, _)
\* mutant of CheckRules: the minimum is never compared
CheckRulesNoMin(rule, chain, i) ==
    IF i > Len(rule)
    THEN [status |-> SUCCESS, stop |-> NoStop]
    ELSE LET s == ScanEntry(rule[i], chain, 1, 0)
         IN  IF s.over
             THEN [status |-> NOT_SUPPORTED,
                   stop |-> [entry |-> i, pos |-> s.pos, kind |-> "max"]]
             ELSE CheckRulesNoMin(rule, chain, i + 1)

RECURSIVE CheckRulesStrictMin(_, _, _)
\* mutant of CheckRules: the minimum has to be exceeded
CheckRulesStrictMin(rule, chain, i) ==
    IF i > Len(rule)
    THEN [status |-> SUCCESS, stop |-> NoStop]
    ELSE LET s == ScanEntry(rule[i], chain, 1, 0)
         IN  IF s.over
             THEN [status |-> NOT_SUPPORTED,
                   stop |-> [entry |-> i, pos |-> s.pos, kind |-> "max"]]
             ELSE IF s.found <= rule[i].min_occurence
             THEN [status |-> NOT_SUPPORTED,
                   stop |-> [entry |-> i, pos |-> s.pos, kind |-> "min"]]
             ELSE CheckRulesStrictMin(rule, chain, i + 1)

RECURSIVE CheckRules(_, _, _)
\* the for loop of the counting pass, from rule entry i
CheckRules(rule, chain, i) ==
    IF i > Len(rule)
    THEN [status |-> SUCCESS, stop |-> NoStop]
    ELSE LET s == ScanEntry(rule[i], chain, 1, 0)
         IN  IF s.over
             THEN [status |-> NOT_SUPPORTED,
                   stop |-> [entry |-> i, pos |-> s.pos, kind |-> "max"]]
             ELSE IF s.found < rule[i].min_occurence
             THEN [status |-> NOT_SUPPORTED,
                   stop |-> [entry |-> i, pos |-> s.pos, kind |-> "min"]]
             ELSE CheckRules(rule, chain, i + 1)

\* nothing was handed to the caller of get_ike_sa_id
NoCopy == [handed |-> FALSE, id |-> NullIkeSaId, shared |-> FALSE]

\* record describing what an operation did
\*   asked      types the parser was asked to decode, in order
\*   visited    values current_payload_type took at the top of the loop body
\*   appended   number of payloads inserted at the end of the chain
\*   counted    the counting pass was entered
\*   stop       where the counting pass returned its failure
\*   generated  payloads handed to the generator, in order
\*   step       the step of parse_body that failed: "lookup", "admit",
\*              "parse", "verify", "insert", "iterator" or "count" ("none":
\*              no failure)
\*   copy       the ike_sa_id get_ike_sa_id handed to its caller
\*   released   the objects destroy released, in order
Outcome(op, status, asked, visited, appended, counted, stop, generated) ==
    [op |-> op, status |-> status, asked |-> asked, visited |-> visited,
     appended |-> appended, counted |-> counted, stop |-> stop,
     generated |-> generated, step |-> "none", copy |-> NoCopy,
     released |-> <<>>]

Plain(op, status) == Outcome(op, status, <<>>, <<>>, 0, FALSE, NoStop, <<>>)

\* mutant of ParseBody: the status of the rule lookup is passed on
ParseBodyPassingStatus(et, req, first, psr, chain, fault) ==
    LET g == get_supported_payloads(et, req)
    IN  IF g.status # SUCCESS
        THEN [chain |-> chain, parser |-> psr,
              out |-> [Plain("parse_body", g.status) EXCEPT !.step = "lookup"]]
        ELSE
          LET rule == g.supported_payloads
              l == DecodeLoop(rule, first, psr, chain, <<>>, <<>>, 0, fault)
          IN  IF l.status # SUCCESS \/ fault = l.calls + 1
              THEN [chain |-> l.chain, parser |-> l.parser,
                    out |-> [Outcome("parse_body",
                                     IF l.status # SUCCESS THEN l.status ELSE OUT_OF_RES,
                                     l.asked, l.visited, Len(l.chain) - Len(chain),
                                     FALSE, NoStop, <<>>)
                             EXCEPT !.step = IF l.status # SUCCESS THEN l.step
                                             ELSE "iterator"]]
              ELSE LET c == CheckRules(rule, l.chain, 1)
                   IN  [chain |-> l.chain, parser |-> l.parser,
                        out |-> [Outcome("parse_body", c.status, l.asked,
                                         l.visited, Len(l.chain) - Len(chain),
                                         TRUE, c.stop, <<>>)
                                 EXCEPT !.step = IF c.status # SUCCESS THEN "count"
                                                 ELSE "none"]]

\* mutant of ParseBody: a failed call leaves the chain as it found it
ParseBodyRollback(et, req, first, psr, chain, fault) ==
    LET g == get_supported_payloads(et, req)
    IN  IF g.status # SUCCESS
        THEN [chain |-> chain, parser |-> psr,
              out |-> [Plain("parse_body", FAILED) EXCEPT !.step = "lookup"]]
        ELSE
          LET rule == g.supported_payloads
              l == DecodeLoop(rule, first, psr, chain, <<>>, <<>>, 0, fault)
          IN  IF l.status # SUCCESS
              THEN [chain |-> chain, parser |-> l.parser,
                    out |-> [Outcome("parse_body", l.status, l.asked, l.visited,
                                     Len(l.chain) - Len(chain), FALSE, NoStop, <<>>)
                             EXCEPT !.step = l.step]]
              ELSE IF fault = l.calls + 1
              THEN [chain |-> chain, parser |-> l.parser,
                    out |-> [Outcome("parse_body", OUT_OF_RES, l.asked, l.visited,
                                     Len(l.chain) - Len(chain), FALSE, NoStop, <<>>)
                             EXCEPT !.step = "iterator"]]
              ELSE LET c == CheckRules(rule, l.chain, 1)
                   IN  [chain |-> IF c.status = SUCCESS THEN l.chain ELSE chain,
                        parser |-> l.parser,
                        out |-> [Outcome("parse_body", c.status, l.asked,
                                         l.visited, Len(l.chain) - Len(chain),
                                         TRUE, c.stop, <<>>)
                                 EXCEPT !.step = IF c.status # SUCCESS THEN "count"
                                                 ELSE "none"]]

\* parse_body as a function of the message state it reads
\* mutant of ParseBody: the chain is emptied before the body is decoded
ParseBodyClearing(et, req, first, psr, chain, fault) ==
    LET g == get_supported_payloads(et, req)
    IN  IF g.status # SUCCESS
        THEN [chain |-> << >>, parser |-> psr,
              out |-> [Plain("parse_body", FAILED) EXCEPT !.step = "lookup"]]
        ELSE
          LET rule == g.supported_payloads
              l == DecodeLoop(rule, first, psr, << >>, <<>>, <<>>, 0, fault)
          IN  IF l.status # SUCCESS
              THEN [chain |-> l.chain, parser |-> l.parser,
                    out |-> [Outcome("parse_body", l.status, l.asked, l.visited,
                                     Len(l.chain), FALSE, NoStop, <<>>)
                             EXCEPT !.step = l.step]]
              ELSE IF fault = l.calls + 1
              THEN [chain |-> l.chain, parser |-> l.parser,
                    out |-> [Outcome("parse_body", OUT_OF_RES, l.asked, l.visited,
                                     Len(l.chain), FALSE, NoStop, <<>>)
                             EXCEPT !.step = "iterator"]]
              ELSE LET c == CheckRules(rule, l.chain, 1)
                   IN  [chain |-> l.chain, parser |-> l.parser,
                        out |-> [Outcome("parse_body", c.status, l.asked,
                                         l.visited, Len(l.chain),
                                         TRUE, c.stop, <<>>)
                                 EXCEPT !.step = IF c.status # SUCCESS THEN "count"
                                                 ELSE "none"]]

ParseBody(et, req, first, psr, chain, fault) ==
    LET g == get_supported_payloads(et, req)
    IN  IF g.status # SUCCESS
        THEN [chain |-> chain, parser |-> psr,
              out |-> [Plain("parse_body", FAILED) EXCEPT !.step = "lookup"]]
        ELSE
          LET rule == g.supported_payloads
              l == DecodeLoop(rule, first, psr, chain, <<>>, <<>>, 0, fault)
          IN  IF l.status # SUCCESS
              THEN [chain |-> l.chain, parser |-> l.parser,
                    out |-> [Outcome("parse_body", l.status, l.asked, l.visited,
                                     Len(l.chain) - Len(chain), FALSE, NoStop, <<>>)
                             EXCEPT !.step = l.step]]
              ELSE IF fault = l.calls + 1
              THEN \* create_iterator failed
                   [chain |-> l.chain, parser |-> l.parser,
                    out |-> [Outcome("parse_body", OUT_OF_RES, l.asked, l.visited,
                                     Len(l.chain) - Len(chain), FALSE, NoStop, <<>>)
                             EXCEPT !.step = "iterator"]]
              ELSE LET c == CheckRules(rule, l.chain, 1)
                   IN  [chain |-> l.chain, parser |-> l.parser,
                        out |-> [Outcome("parse_body", c.status, l.asked,
                                         l.visited, Len(l.chain) - Len(chain),
                                         TRUE, c.stop, <<>>)
                                 EXCEPT !.step = IF c.status # SUCCESS THEN "count"
                                                 ELSE "none"]]

(* ------------------------------- state --------------------------------- *)
VARIABLES
    major_version, minor_version, first_payload, exchange_type, is_request,
    message_id, ike_sa_id, packet, payloads, parser,
    last,           \* what the most recent operation did and returned
    header_parsed,  \* an earlier parse_header on this message succeeded
    live,           \* transient objects allocated and not yet destroyed
    out_packet,     \* the packet generate handed to its caller
    sent,           \* the message as it was when it was generated
    role,           \* who drives the message: "sender" or "receiver"
    faults,         \* resource exhaustions injected so far
    crashed,        \* the process was killed by an invalid memory access
    heap,           \* objects of the message that went astray: the kinds
                    \* of object it owns but no longer references (lost)
                    \* and the kinds it released more than once (twice)
    body_parsed     \* whether a parse_body on this message has succeeded:
                    \* "never", "nothing" (every success decoded no
                    \* payload) or "decoded" (a success decoded payloads)

vars == << major_version, minor_version, first_payload, exchange_type,
           is_request, message_id, ike_sa_id, packet, payloads, parser, last,
           header_parsed, live, out_packet, sent, role, faults, crashed,
           heap, rules, body_parsed >>

header_fields == << major_version, minor_version, first_payload, exchange_type,
                    is_request, message_id >>

ghosts == << out_packet, sent, role, crashed, heap >>

\* the process runs and the message has not been destroyed
Alive == ~crashed /\ last.op # "destroy"

NoHeap == [lost |-> {}, twice |-> {}]

\* a resource exhaustion may be injected while the budget lasts
MayFail == faults < MaxFaults

NoPacket == [produced |-> FALSE, data |-> <<>>, source |-> NULL, destination |-> NULL]

NoSent == [valid |-> FALSE, exchange_type |-> EXCHANGE_TYPE_UNDEFINED,
           is_request |-> TRUE, message_id |-> 0, ike_sa_id |-> NullIkeSaId,
           chain |-> <<>>]

NoLive == [ike_header |-> 0, generator |-> 0, iterator |-> 0]

\* content of the version fields, which the constructor leaves unset: not a
\* u_int8_t value; no modelled operation reads it before parse_header has
\* written the fields
Indeterminate == 0 - 1

\* message_create_from_packet(packet), packet given by its byte buffer: the
\* fields of the new message
message_create_from_packet(data) ==
    [major_version |-> Indeterminate,
     minor_version |-> Indeterminate,
     exchange_type |-> EXCHANGE_TYPE_UNDEFINED,
     is_request |-> TRUE,
     ike_sa_id |-> NullIkeSaId,
     first_payload |-> NO_PAYLOAD,
     message_id |-> 0,
     packet |-> [source |-> NULL, destination |-> NULL, data |-> data,
                 dangling |-> FALSE],
     payloads |-> <<>>,
     parser |-> [data |-> data, pos |-> 0]]

\* message_create(): a message on a new, empty packet
message_create == message_create_from_packet(<<>>)

\* the message is the newly constructed m
Constructed(m) ==
    /\ major_version = m.major_version
    /\ minor_version = m.minor_version
    /\ exchange_type = m.exchange_type
    /\ is_request = m.is_request
    /\ ike_sa_id = m.ike_sa_id
    /\ first_payload = m.first_payload
    /\ message_id = m.message_id
    /\ packet = m.packet
    /\ payloads = m.payloads
    /\ parser = m.parser

(* --------------------------- received packets -------------------------- *)
RuleTypes == {SECURITY_ASSOCIATION, KEY_EXCHANGE, NONCE}

TypeSeqs(n) == UNION {[1..k -> RuleTypes] : k \in 0..n}

\* the payloads of a body with the given types, linked in order; the last
\* link is tail and the payload at position bad (if any) fails verify()
LinkedBody(types, bad, tail) ==
    [k \in 1..Len(types) |->
        [type |-> types[k],
         next |-> IF k < Len(types) THEN types[k + 1] ELSE tail,
         valid |-> k # bad]]

RECURSIVE EncodeBody(_)
EncodeBody(ps) ==
    IF ps = <<>> THEN <<>> ELSE EncodePayload(Head(ps)) \o EncodeBody(Tail(ps))

FirstType(types, tail) == IF Len(types) > 0 THEN types[1] ELSE tail

\* bodies a peer may send: well-formed ones, ones whose last payload does
\* not verify, ones whose last link names a type outside every rule, and
\* truncated ones (the last link promises a payload that is not there)
Bodies ==
    {[types |-> t, bad |-> 0, tail |-> NO_PAYLOAD] : t \in TypeSeqs(MaxWire)}
    \cup {[types |-> t, bad |-> 0, tail |-> x] :
            t \in TypeSeqs(MaxWire), x \in {NOTIFY, KEY_EXCHANGE}}
    \cup {[types |-> t, bad |-> Len(t), tail |-> NO_PAYLOAD] :
            t \in TypeSeqs(MaxWire) \ {<<>>}}

PeerId == ike_sa_id_create(1, 2, TRUE)

WireHeader(et, response, major, first) ==
    [ike_header_create EXCEPT
        !.next = first, !.initiator_spi = PeerId.initiator_spi,
        !.responder_spi = PeerId.responder_spi, !.maj_version = major,
        !.exchange_type = et, !.initiator = PeerId.is_initiator,
        !.response = response, !.message_id = 1]

Datagram(h, b) ==
    write_to_chunk(EncodeHeader(WireHeader(h.et, h.response, h.major,
                                           FirstType(b.types, b.tail)))
                   \o EncodeBody(LinkedBody(b.types, b.bad, b.tail)))

SmallBodies == {b \in Bodies : b.types \in {<<>>, <<SECURITY_ASSOCIATION, KEY_EXCHANGE, NONCE>>}
                               /\ b.bad = 0 /\ b.tail = NO_PAYLOAD}

\* packets a message may be bound to: IKE_SA_INIT datagrams with every body,
\* datagrams of another exchange or protocol version, and buffers that hold
\* no header at all (empty, or starting with a body payload)
InboundPackets ==
    {Datagram([et |-> IKE_SA_INIT, response |-> FALSE, major |-> IKE_MAJOR_VERSION], b) :
        b \in Bodies}
    \cup {Datagram([et |-> et, response |-> TRUE, major |-> IKE_MAJOR_VERSION], b) :
            et \in {IKE_SA_INIT, IKE_AUTH}, b \in SmallBodies}
    \cup {Datagram([et |-> IKE_SA_INIT, response |-> FALSE, major |-> 1], b) :
            b \in SmallBodies}
    \cup {EncodeBody(LinkedBody(b.types, b.bad, b.tail)) :
            b \in {x \in Bodies : Len(x.types) <= 1 /\ x.bad = 0 /\ x.tail = NO_PAYLOAD}}

Init ==
    /\ \E d \in InboundPackets : Constructed(message_create_from_packet(d))
    /\ last = Plain("message_create_from_packet", SUCCESS)
    /\ header_parsed = FALSE
    /\ live = NoLive
    /\ out_packet = NoPacket
    /\ sent = NoSent
    /\ role = "receiver"
    /\ faults = 0
    /\ crashed = FALSE
    /\ heap = NoHeap
    /\ body_parsed = "never"
    /\ rules = message_rules

(* ------------------------------ operations ----------------------------- *)
\* the setters all return SUCCESS and are recorded alike, as "set"
set_exchange_type(t) ==
    /\ Alive
    /\ UNCHANGED << rules, body_parsed >>
    /\ exchange_type' = t
    /\ last' = Plain("set", SUCCESS)
    /\ UNCHANGED << major_version, minor_version, first_payload, is_request,
                    message_id, ike_sa_id, packet, payloads, parser,
                    header_parsed, live, faults, ghosts >>

set_request(r) ==
    /\ Alive
    /\ UNCHANGED << rules, body_parsed >>
    /\ is_request' = r
    /\ last' = Plain("set", SUCCESS)
    /\ UNCHANGED << major_version, minor_version, first_payload, exchange_type,
                    message_id, ike_sa_id, packet, payloads, parser,
                    header_parsed, live, faults, ghosts >>

\* mutant of add_payload: the next-type of the previous last payload is
\* left as it was
add_payload_unlinked(p, oom) ==
    /\ Alive
    /\ UNCHANGED << rules, body_parsed >>
    /\ oom => MayFail
    /\ faults' = IF oom THEN faults + 1 ELSE faults
    /\ IF oom
       THEN /\ last' = Plain("add_payload", OUT_OF_RES)
            /\ UNCHANGED << payloads, first_payload >>
       ELSE /\ payloads' = Append(payloads, p)
            /\ first_payload' = IF Len(payloads) = 0 THEN p.type ELSE first_payload
            /\ last' = Plain("add_payload", SUCCESS)
    /\ UNCHANGED << major_version, minor_version, exchange_type, is_request,
                    message_id, ike_sa_id, packet, parser, header_parsed, live,
                    ghosts >>

\* mutant of add_payload: the first payload type is never set
add_payload_first_unset(p, oom) ==
    /\ Alive
    /\ UNCHANGED << rules, body_parsed >>
    /\ oom => MayFail
    /\ faults' = IF oom THEN faults + 1 ELSE faults
    /\ IF oom
       THEN /\ last' = Plain("add_payload", OUT_OF_RES)
            /\ UNCHANGED << payloads, first_payload >>
       ELSE /\ payloads' =
                   IF Len(payloads) > 0
                   THEN Append([payloads EXCEPT ![Len(payloads)].next = p.type], p)
                   ELSE Append(payloads, p)
            /\ first_payload' = first_payload
            /\ last' = Plain("add_payload", SUCCESS)
    /\ UNCHANGED << major_version, minor_version, exchange_type, is_request,
                    message_id, ike_sa_id, packet, parser, header_parsed, live,
                    ghosts >>

\* add_payload(payload); oom: insert_last runs out of resources
add_payload(p, oom) ==
    /\ Alive
    /\ UNCHANGED << rules, body_parsed >>
    /\ oom => MayFail
    /\ faults' = IF oom THEN faults + 1 ELSE faults
    /\ IF oom
       THEN /\ last' = Plain("add_payload", OUT_OF_RES)
            /\ UNCHANGED << payloads, first_payload >>
       ELSE /\ payloads' =
                   IF Len(payloads) > 0
                   THEN Append([payloads EXCEPT ![Len(payloads)].next = p.type], p)
                   ELSE Append(payloads, p)
            /\ first_payload' = IF Len(payloads) = 0 THEN p.type ELSE first_payload
            /\ last' = Plain("add_payload", SUCCESS)
    /\ UNCHANGED << major_version, minor_version, exchange_type, is_request,
                    message_id, ike_sa_id, packet, parser, header_parsed, live,
                    ghosts >>

\* mutant of parse_header: the fields are taken from the header before it
\* is verified
parse_header_unverified(fault) ==
    /\ Alive
    /\ UNCHANGED << rules, body_parsed >>
    /\ fault > 0 => MayFail
    /\ LET r == parse_payload_header([parser EXCEPT !.pos = 0], fault = 1)
           h == r.payload
       IN  IF r.status # SUCCESS
           THEN /\ parser' = r.parser
                /\ last' = Plain("parse_header", r.status)
                /\ UNCHANGED << header_fields, ike_sa_id, header_parsed, live >>
           ELSE /\ parser' = r.parser
                /\ exchange_type' = h.exchange_type
                /\ message_id' = h.message_id
                /\ is_request' = ~h.response
                /\ major_version' = h.maj_version
                /\ minor_version' = h.min_version
                /\ first_payload' = h.next
                /\ live' = [live EXCEPT !.ike_header = (@ + 1) - 1]
                /\ IF verify_header(h) # SUCCESS
                   THEN /\ last' = Plain("parse_header", verify_header(h))
                        /\ UNCHANGED << ike_sa_id, header_parsed >>
                   ELSE IF fault = 2
                   THEN /\ ike_sa_id' = NullIkeSaId
                        /\ last' = Plain("parse_header", OUT_OF_RES)
                        /\ UNCHANGED header_parsed
                   ELSE /\ ike_sa_id' = ike_sa_id_create(h.initiator_spi,
                                                         h.responder_spi, h.initiator)
                        /\ last' = Plain("parse_header", SUCCESS)
                        /\ header_parsed' = TRUE
    /\ faults' = IF last'.status = OUT_OF_RES THEN faults + 1 ELSE faults
    /\ UNCHANGED << packet, payloads, ghosts >>

\* parse_header; fault 1: the parser runs out of resources, fault 2:
\* ike_sa_id_create returns NULL
parse_header(fault) ==
    /\ Alive
    /\ UNCHANGED << rules, body_parsed >>
    /\ fault > 0 => MayFail
    /\ LET r == parse_payload_header([parser EXCEPT !.pos = 0], fault = 1)
           h == r.payload
       IN  IF r.status # SUCCESS
           THEN /\ parser' = r.parser
                /\ last' = Plain("parse_header", r.status)
                /\ UNCHANGED << header_fields, ike_sa_id, header_parsed, live >>
           ELSE IF verify_header(h) # SUCCESS
           THEN /\ parser' = r.parser
                /\ last' = Plain("parse_header", verify_header(h))
                \* the header is allocated by the parser and destroyed here
                /\ live' = [live EXCEPT !.ike_header = (@ + 1) - 1]
                /\ UNCHANGED << header_fields, ike_sa_id, header_parsed >>
           ELSE IF fault = 2
           THEN /\ parser' = r.parser
                \* the previous ike_sa_id is already destroyed
                /\ ike_sa_id' = NullIkeSaId
                /\ last' = Plain("parse_header", OUT_OF_RES)
                /\ live' = [live EXCEPT !.ike_header = (@ + 1) - 1]
                /\ UNCHANGED << header_fields, header_parsed >>
           ELSE /\ parser' = r.parser
                /\ ike_sa_id' = ike_sa_id_create(h.initiator_spi, h.responder_spi,
                                                 h.initiator)
                /\ exchange_type' = h.exchange_type
                /\ message_id' = h.message_id
                /\ is_request' = ~h.response
                /\ major_version' = h.maj_version
                /\ minor_version' = h.min_version
                /\ first_payload' = h.next
                /\ last' = Plain("parse_header", SUCCESS)
                /\ live' = [live EXCEPT !.ike_header = (@ + 1) - 1]
                /\ header_parsed' = TRUE
    /\ faults' = IF last'.status = OUT_OF_RES THEN faults + 1 ELSE faults
    /\ UNCHANGED << packet, payloads, ghosts >>

\* number of fallible collaborator calls one parse_body can make
FaultPoints == 2 * MaxChain + 1

parse_body(fault) ==
    /\ Alive
    /\ UNCHANGED rules
    /\ fault > 0 => MayFail
    /\ LET r == ParseBody(exchange_type, is_request, first_payload, parser,
                          payloads, fault)
       IN  /\ payloads' = r.chain
           /\ parser' = r.parser
           /\ last' = r.out
    /\ faults' = IF last'.status = OUT_OF_RES THEN faults + 1 ELSE faults
    /\ body_parsed' = IF last'.status # SUCCESS THEN body_parsed
                      ELSE IF last'.appended > 0 THEN "decoded"
                      ELSE IF body_parsed = "decoded" THEN "decoded"
                      ELSE "nothing"
    \* a payload that failed verify() or insert_last is not destroyed
    /\ heap' = IF last'.step \in {"verify", "insert"}
               THEN [heap EXCEPT !.lost = @ \cup {"payload"}]
               ELSE heap
    /\ UNCHANGED << header_fields, ike_sa_id, packet, header_parsed, live,
                    out_packet, sent, role, crashed >>

\* payloads the owner of a received message may add to it
ReceiverPayloads ==
    {[type |-> t, next |-> NO_PAYLOAD, valid |-> TRUE] : t \in {KEY_EXCHANGE, NOTIFY}}

set_message_id(id) ==
    /\ Alive
    /\ UNCHANGED << rules, body_parsed >>
    /\ message_id' = id
    /\ last' = Plain("set", SUCCESS)
    /\ UNCHANGED << major_version, minor_version, first_payload, exchange_type,
                    is_request, ike_sa_id, packet, payloads, parser,
                    header_parsed, live, faults, ghosts >>

\* ike_sa_id_t.clone: a new object with the same content
clone(id) == ike_sa_id_create(id.initiator_spi, id.responder_spi, id.is_initiator)

\* set_ike_sa_id: the message keeps a clone of the caller's ike_sa_id; the
\* pointer to the ike_sa_id it had is overwritten
set_ike_sa_id(id) ==
    /\ Alive
    /\ UNCHANGED << rules, body_parsed >>
    /\ ike_sa_id' = clone(id)
    /\ heap' = IF ike_sa_id.null THEN heap
               ELSE [heap EXCEPT !.lost = @ \cup {"ike_sa_id"}]
    /\ last' = Plain("set", SUCCESS)
    /\ UNCHANGED << header_fields, packet, payloads, parser, header_parsed, live,
                    faults, out_packet, sent, role, crashed >>

\* mutant of get_ike_sa_id: the caller is handed the message's own instance
get_ike_sa_id_shared(oom) ==
    /\ Alive
    /\ UNCHANGED << rules, body_parsed >>
    /\ oom => MayFail /\ ~ike_sa_id.null
    /\ last' = IF ike_sa_id.null
               THEN Plain("get_ike_sa_id", FAILED)
               ELSE IF oom
               THEN Plain("get_ike_sa_id", OUT_OF_RES)
               ELSE [Plain("get_ike_sa_id", SUCCESS) EXCEPT
                        !.copy = [handed |-> TRUE, id |-> ike_sa_id,
                                  shared |-> TRUE]]
    /\ faults' = IF oom THEN faults + 1 ELSE faults
    /\ UNCHANGED << header_fields, ike_sa_id, packet, payloads, parser,
                    header_parsed, live, ghosts >>

\* get_ike_sa_id(&ike_sa_id); oom: the clone runs out of resources
get_ike_sa_id(oom) ==
    /\ Alive
    /\ UNCHANGED << rules, body_parsed >>
    /\ oom => MayFail /\ ~ike_sa_id.null
    /\ last' = IF ike_sa_id.null
               THEN Plain("get_ike_sa_id", FAILED)
               ELSE IF oom
               THEN Plain("get_ike_sa_id", OUT_OF_RES)
               ELSE [Plain("get_ike_sa_id", SUCCESS) EXCEPT
                        !.copy = [handed |-> TRUE, id |-> clone(ike_sa_id),
                                  shared |-> FALSE]]
    /\ faults' = IF oom THEN faults + 1 ELSE faults
    /\ UNCHANGED << header_fields, ike_sa_id, packet, payloads, parser,
                    header_parsed, live, ghosts >>

set_source(host) ==
    /\ Alive
    /\ UNCHANGED << rules, body_parsed >>
    /\ packet' = [packet EXCEPT !.source = host]
    /\ last' = Plain("set", SUCCESS)
    /\ UNCHANGED << header_fields, ike_sa_id, payloads, parser, header_parsed,
                    live, faults, ghosts >>

set_destination(host) ==
    /\ Alive
    /\ UNCHANGED << rules, body_parsed >>
    /\ packet' = [packet EXCEPT !.destination = host]
    /\ last' = Plain("set", SUCCESS)
    /\ UNCHANGED << header_fields, ike_sa_id, payloads, parser, header_parsed,
                    live, faults, ghosts >>

\* what the generator is handed: the payload's type and next-type
Handed(p) == [type |-> p.type, next |-> p.next]

\* mutant of Relinked: the last payload's next-type is left as it was
RelinkedButLast(chain, n) ==
    [j \in 1..Len(chain) |->
        IF j <= n /\ j < Len(chain)
        THEN [chain[j] EXCEPT !.next = chain[j + 1].type]
        ELSE chain[j]]

\* mutant of GeneratePreconditions: source and destination are only
\* refused when both are unset
GeneratePreconditionsBothUnset(et, pkt) ==
    IF et = EXCHANGE_TYPE_UNDEFINED
    THEN INVALID_STATE
    ELSE IF pkt.source = NULL /\ pkt.destination = NULL
    THEN INVALID_STATE
    ELSE SUCCESS

\* the checks generate makes before it allocates anything
GeneratePreconditions(et, pkt) ==
    IF et = EXCHANGE_TYPE_UNDEFINED
    THEN INVALID_STATE
    ELSE IF pkt.source = NULL \/ pkt.destination = NULL
    THEN INVALID_STATE
    ELSE SUCCESS

\* the first n payloads of the chain with their next-type set to the type
\* of their successor (NO_PAYLOAD for the last payload of the chain)
Relinked(chain, n) ==
    [j \in 1..Len(chain) |->
        IF j <= n
        THEN [chain[j] EXCEPT !.next = IF j < Len(chain) THEN chain[j + 1].type
                                       ELSE NO_PAYLOAD]
        ELSE chain[j]]

\* mutant of GenerateHeader: the response flag is not inverted
GenerateHeaderSameFlag ==
    [ike_header_create EXCEPT
        !.exchange_type = exchange_type,
        !.message_id = message_id,
        !.response = is_request,
        !.initiator = ike_sa_id.is_initiator,
        !.initiator_spi = ike_sa_id.initiator_spi,
        !.responder_spi = ike_sa_id.responder_spi,
        !.next = IF Len(payloads) > 0 THEN payloads[1].type ELSE NO_PAYLOAD]

\* the header generate builds from the message
GenerateHeader ==
    [ike_header_create EXCEPT
        !.exchange_type = exchange_type,
        !.message_id = message_id,
        !.response = ~is_request,
        !.initiator = ike_sa_id.is_initiator,
        !.initiator_spi = ike_sa_id.initiator_spi,
        !.responder_spi = ike_sa_id.responder_spi,
        !.next = IF Len(payloads) > 0 THEN payloads[1].type ELSE NO_PAYLOAD]

\* mutant of GenerateOrder: every payload is handed over before its
\* next-type is set
GenerateOrderUnlinked == <<ike_header_create>> \o payloads

\* payloads in the order generate hands them to the generator: the header,
\* then the chain, each with its next-type set
GenerateOrder == <<GenerateHeader>> \o Relinked(payloads, Len(payloads))

RECURSIVE GenerateAll(_, _, _)
\* the generator's buffer after the first n payloads of the sequence
GenerateAll(gen, seq, n) ==
    IF n = 0 THEN gen
    ELSE generate_payload(GenerateAll(gen, seq, n - 1), seq[n])

\* allocator_free(this->packet->data.ptr): releasing a buffer that was
\* already released may or may not kill the process
FreeData ==
    IF packet.dangling
    THEN /\ heap' = [heap EXCEPT !.twice = @ \cup {"data"}]
         /\ crashed' \in BOOLEAN
    ELSE UNCHANGED << heap, crashed >>

\* generate.  fault (0: none) numbers the collaborator call that fails:
\* 1 ike_header_create, 2 generator_create, 3 create_iterator,
\* 3 + k the k-th generate_payload, then write_to_chunk, then packet clone
generate(fault) ==
    LET n == Len(payloads)
        order == GenerateOrder
        fail(status, k) ==
            \* the k-th generate_payload (k = 0: none) was the last one made
            /\ last' = Outcome("generate", status, <<>>, <<>>, 0, FALSE, NoStop,
                               [j \in 1..k |-> Handed(order[j])])
            /\ payloads' = Relinked(payloads, k - 1)
    IN
    /\ Alive
    /\ UNCHANGED << rules, body_parsed >>
    /\ fault > 0 => MayFail
    /\ IF GeneratePreconditions(exchange_type, packet) # SUCCESS
       THEN /\ fail(GeneratePreconditions(exchange_type, packet), 0)
            /\ UNCHANGED << packet, live, out_packet, sent, crashed, heap >>
       ELSE IF fault = 1
       THEN /\ fail(OUT_OF_RES, 0)
            /\ UNCHANGED << packet, live, out_packet, sent, crashed, heap >>
       ELSE IF ike_sa_id.null
       THEN \* this->ike_sa_id->is_initiator on a NULL pointer
            /\ fail(SEGV, 0)
            /\ crashed' = TRUE
            /\ UNCHANGED << packet, live, out_packet, sent, heap >>
       ELSE IF fault = 2
       THEN \* the header is not destroyed
            /\ fail(OUT_OF_RES, 0)
            /\ live' = [live EXCEPT !.ike_header = @ + 1]
            /\ UNCHANGED << packet, out_packet, sent, crashed, heap >>
       ELSE IF fault = 3
       THEN /\ fail(OUT_OF_RES, 0)
            /\ UNCHANGED << packet, live, out_packet, sent, crashed, heap >>
       ELSE IF fault > 3 /\ fault <= 3 + n
       THEN \* generate_payload failed inside the loop: the iterator stays
            /\ fail(OUT_OF_RES, fault - 3)
            /\ live' = [live EXCEPT !.iterator = @ + 1]
            /\ UNCHANGED << packet, out_packet, sent, crashed, heap >>
       ELSE IF fault = 3 + n + 1
       THEN /\ fail(OUT_OF_RES, n + 1)
            /\ UNCHANGED << packet, live, out_packet, sent, crashed, heap >>
       ELSE IF fault = 3 + n + 2
       THEN \* write_to_chunk failed after the old buffer was freed
            /\ fail(OUT_OF_RES, n + 1)
            /\ packet' = [packet EXCEPT !.dangling = (packet.data # <<>>)]
            /\ FreeData
            /\ UNCHANGED << live, out_packet, sent >>
       ELSE /\ fail(SUCCESS, n + 1)
            /\ packet' = [packet EXCEPT
                            !.data = write_to_chunk(GenerateAll(<<>>, order, n + 1)),
                            !.dangling = FALSE]
            /\ IF fault = 3 + n + 3
               THEN \* the clone failed; its status is not looked at
                    UNCHANGED << out_packet, sent >>
               ELSE /\ out_packet' = [produced |-> TRUE, data |-> packet'.data,
                                      source |-> packet.source,
                                      destination |-> packet.destination]
                    /\ sent' = [valid |-> TRUE, exchange_type |-> exchange_type,
                                is_request |-> is_request,
                                message_id |-> message_id,
                                ike_sa_id |-> ike_sa_id, chain |-> payloads']
            /\ FreeData
            /\ UNCHANGED live
    /\ faults' = IF last'.status = OUT_OF_RES \/ (fault = 3 + n + 3 /\ last'.status = SUCCESS)
                 THEN faults + 1 ELSE faults
    /\ UNCHANGED << header_fields, ike_sa_id, parser, header_parsed, role >>

\* mutant of DestroyOrder: the chain container is released before the
\* payloads it holds
DestroyOrderContainerFirst ==
    << [obj |-> "packet", index |-> 0] >>
    \o (IF ike_sa_id.null THEN << >> ELSE << [obj |-> "ike_sa_id", index |-> 0] >>)
    \o << [obj |-> "payloads", index |-> 0] >>
    \o [j \in 1..Len(payloads) |-> [obj |-> "payload", index |-> j]]
    \o << [obj |-> "parser", index |-> 0], [obj |-> "logger", index |-> 0] >>

\* the objects destroy releases, in order
DestroyOrder ==
    << [obj |-> "packet", index |-> 0] >>
    \o (IF ike_sa_id.null THEN << >> ELSE << [obj |-> "ike_sa_id", index |-> 0] >>)
    \o [j \in 1..Len(payloads) |-> [obj |-> "payload", index |-> j]]
    \o << [obj |-> "payloads", index |-> 0], [obj |-> "parser", index |-> 0],
          [obj |-> "logger", index |-> 0] >>

\* destroy: the packet is destroyed together with its buffer
destroy ==
    /\ Alive
    /\ UNCHANGED << rules, body_parsed >>
    /\ last' = [Plain("destroy", SUCCESS) EXCEPT !.released = DestroyOrder]
    /\ FreeData
    /\ UNCHANGED << header_fields, ike_sa_id, packet, payloads, parser,
                    header_parsed, live, out_packet, sent, role, faults >>

\* the generated packet is bound to a fresh message, which the receiving
\* side drives from then on
receive ==
    /\ Alive
    /\ UNCHANGED rules
    /\ body_parsed' = "never"
    /\ out_packet.produced
    /\ LET m == message_create_from_packet(out_packet.data)
       IN  /\ major_version' = m.major_version
           /\ minor_version' = m.minor_version
           /\ exchange_type' = m.exchange_type
           /\ is_request' = m.is_request
           /\ ike_sa_id' = m.ike_sa_id
           /\ first_payload' = m.first_payload
           /\ message_id' = m.message_id
           /\ packet' = [m.packet EXCEPT !.source = out_packet.source,
                                         !.destination = out_packet.destination]
           /\ payloads' = m.payloads
           /\ parser' = m.parser
    /\ last' = Plain("message_create_from_packet", SUCCESS)
    /\ header_parsed' = FALSE
    /\ role' = "receiver"
    \* the accounts are those of the message at hand
    /\ heap' = NoHeap
    /\ UNCHANGED << live, out_packet, sent, faults, crashed >>

\* parse_body is driven only while the chain it leaves fits the bound
ChainStaysBounded(fault) ==
    Len(ParseBody(exchange_type, is_request, first_payload, parser, payloads,
                  fault).chain) <= MaxChain

Next ==
    \/ \E t \in {IKE_SA_INIT, IKE_AUTH} : set_exchange_type(t)
    \/ \E r \in BOOLEAN : set_request(r)
    \/ \E p \in ReceiverPayloads : Len(payloads) < MaxAdded /\ add_payload(p, FALSE)
    \/ \E f \in 0..2 : parse_header(f)
    \/ \E f \in 0..FaultPoints : ChainStaysBounded(f) /\ parse_body(f)
    \/ destroy

Spec == Init /\ [][Next]_vars

(* -------------------------- other rule tables -------------------------- *)
\* largest minimum and maximum occurrence of the rule entries examined
MaxOccurence == 2

\* rules over the given payload types: every ordered choice of distinct
\* types, each with a minimum and a maximum occurrence
RulesOver(types) ==
    {r \in UNION {[1..k -> [payload_type : types,
                            min_occurence : 0..(MaxOccurence - 1),
                            max_occurence : 1..MaxOccurence]] :
                    k \in 0..Cardinality(types)} :
        \A i, j \in 1..Len(r) : r[i].payload_type = r[j].payload_type => i = j}

\* tables with one row, for IKE_SA_INIT requests
RuleTables ==
    {<< [exchange_type |-> IKE_SA_INIT, is_request |-> TRUE,
         supported_payloads |-> r] >> :
        r \in RulesOver({SECURITY_ASSOCIATION, KEY_EXCHANGE})}

\* well-formed IKE_SA_INIT datagrams with bodies of up to MaxWire payloads
RuledPackets ==
    {Datagram([et |-> IKE_SA_INIT, response |-> resp, major |-> IKE_MAJOR_VERSION],
              [types |-> t, bad |-> 0, tail |-> NO_PAYLOAD]) :
        resp \in BOOLEAN, t \in TypeSeqs(MaxWire)}

\* a received message under a rule table other than the compiled-in one
InitRules ==
    /\ \E d \in RuledPackets : Constructed(message_create_from_packet(d))
    /\ last = Plain("message_create_from_packet", SUCCESS)
    /\ header_parsed = FALSE
    /\ live = NoLive
    /\ out_packet = NoPacket
    /\ sent = NoSent
    /\ role = "receiver"
    /\ faults = 0
    /\ crashed = FALSE
    /\ heap = NoHeap
    /\ body_parsed = "never"
    /\ rules \in RuleTables

NextRules ==
    \/ parse_header(0)
    \/ ChainStaysBounded(0) /\ parse_body(0)

SpecRules == InitRules /\ [][NextRules]_vars

(* ------------------------ parsing a message again ---------------------- *)
\* longest chain repeated parse_body calls are followed to
MaxReparse == 6

\* payloads the owner of a received message adds to its chain
AddedPayloads ==
    {[type |-> t, next |-> NO_PAYLOAD, valid |-> TRUE] : t \in RuleTypes}

\* IKE_SA_INIT requests with a well-formed body, alone or followed in the
\* datagram by one more payload behind the end of the body
ReparsePackets ==
    {write_to_chunk(
        Datagram([et |-> IKE_SA_INIT, response |-> FALSE, major |-> IKE_MAJOR_VERSION],
                 [types |-> t, bad |-> 0, tail |-> NO_PAYLOAD])
        \o EncodeBody(LinkedBody(x, 0, NO_PAYLOAD))) :
        t \in TypeSeqs(MaxWire),
        x \in {<< >>, << SECURITY_ASSOCIATION >>, << NONCE >>}}

InitReparse ==
    /\ \E d \in ReparsePackets : Constructed(message_create_from_packet(d))
    /\ last = Plain("message_create_from_packet", SUCCESS)
    /\ header_parsed = FALSE
    /\ live = NoLive
    /\ out_packet = NoPacket
    /\ sent = NoSent
    /\ role = "receiver"
    /\ faults = 0
    /\ crashed = FALSE
    /\ heap = NoHeap
    /\ body_parsed = "never"
    /\ rules = message_rules

NextReparse ==
    \/ \E p \in AddedPayloads : Len(payloads) < MaxWire /\ add_payload(p, FALSE)
    \/ \E r \in BOOLEAN : set_request(r)
    \/ parse_header(0)
    \/ /\ Len(ParseBody(exchange_type, is_request, first_payload, parser,
                        payloads, 0).chain) <= MaxReparse
       /\ parse_body(0)

SpecReparse == InitReparse /\ [][NextReparse]_vars

(* ----------------------------- sending side ---------------------------- *)
OwnIds == {ike_sa_id_create(1, 0, TRUE), ike_sa_id_create(2, 1, FALSE)}

\* payloads the owner of an outbound message adds; their next-type is
\* whatever the payload was built with
SenderPayloads ==
    {[type |-> t, next |-> x, valid |-> TRUE] :
        t \in RuleTypes, x \in {NO_PAYLOAD, NOTIFY}}

\* number of fallible collaborator calls one generate can make
GenerateFaultPoints == 3 + MaxOut + 3

InitSend ==
    /\ Constructed(message_create)
    /\ last = Plain("message_create", SUCCESS)
    /\ header_parsed = FALSE
    /\ live = NoLive
    /\ out_packet = NoPacket
    /\ sent = NoSent
    /\ role = "sender"
    /\ faults = 0
    /\ crashed = FALSE
    /\ heap = NoHeap
    /\ body_parsed = "never"
    /\ rules = message_rules

\* the owner builds the message and generates it; the generated packet is
\* then received and parsed
NextSend ==
    \/ /\ role = "sender" /\ ~sent.valid
       /\ \/ \E t \in {IKE_SA_INIT, IKE_AUTH} : set_exchange_type(t)
          \/ \E r \in BOOLEAN : set_request(r)
          \/ set_message_id(1)
          \/ \E id \in OwnIds : set_ike_sa_id(id)
          \/ set_source("host")
          \/ set_destination("host")
          \/ \E p \in SenderPayloads, oom \in BOOLEAN :
                Len(payloads) < MaxOut /\ add_payload(p, oom)
    \/ role = "sender" /\ \E f \in 0..GenerateFaultPoints : generate(f)
    \/ role = "sender" /\ receive
    \/ role = "receiver" /\ parse_header(0)
    \/ role = "receiver" /\ ChainStaysBounded(0) /\ parse_body(0)
    \/ \E oom \in BOOLEAN : get_ike_sa_id(oom)
    \/ destroy

SpecSend == InitSend /\ [][NextSend]_vars

(* ======================= properties of parse_body ====================== *)
\* the rule parse_body looks up in the current state
CurrentRule == get_supported_payloads(exchange_type, is_request)

Count(chain, type) == Cardinality({j \in 1..Len(chain) : chain[j].type = type})

\* position of the n-th payload of the given type in the chain
PosOfNth(chain, type, n) ==
    CHOOSE j \in 1..Len(chain) :
        /\ chain[j].type = type
        /\ Cardinality({k \in 1..j : chain[k].type = type}) = n

WithinBounds(chain, e) ==
    /\ Count(chain, e.payload_type) >= e.min_occurence
    /\ Count(chain, e.payload_type) <= e.max_occurence

ParsedBody == last.op = "parse_body"

\* C2 as stated: whenever parse_body returns success, every payload of the
\* complete chain has a type listed in the rule for (exchange type,
\* is-request) and every rule entry's type occurs between its minimum and
\* its maximum number of times.
C2_ChainConformsToRule ==
    (ParsedBody /\ last.status = SUCCESS) =>
        LET rule == CurrentRule.supported_payloads
        IN  /\ CurrentRule.status = SUCCESS
            /\ \A j \in 1..Len(payloads) : payloads[j].type \in SupportedTypes(rule)
            /\ \A i \in 1..Len(rule) : WithinBounds(payloads, rule[i])

\* C2 amended: whenever parse_body returns success, every rule entry's type
\* occurs in the complete chain between its minimum and its maximum number
\* of times, and every payload this call decoded and appended has a type
\* listed in the rule (payloads of other types added before stay unchecked).
C2_CountsConformToRule ==
    (ParsedBody /\ last.status = SUCCESS) =>
        LET rule == CurrentRule.supported_payloads
        IN  /\ CurrentRule.status = SUCCESS
            /\ \A i \in 1..Len(rule) : WithinBounds(payloads, rule[i])
            /\ \A j \in 1..Len(payloads) :
                    j > Len(payloads) - last.appended
                        => payloads[j].type \in SupportedTypes(rule)

\* parse_body succeeded on a message that held an added NOTIFY payload
C2_Witness ==
    /\ ParsedBody /\ last.status = SUCCESS
    /\ last.appended = 3
    /\ \E j \in 1..Len(payloads) : payloads[j].type = NOTIFY

\* C3: when the decode loop has assembled the chain and the counting pass
\* runs, a rule entry whose type occurs fewer times than its minimum makes
\* parse_body fail with NOT_SUPPORTED; so does an IKE_SA_INIT request with
\* SECURITY_ASSOCIATION and NONCE but no KEY_EXCHANGE.
C3_MinimumEnforced ==
    (ParsedBody /\ last.counted) =>
        LET rule == CurrentRule.supported_payloads
        IN  /\ (\E i \in 1..Len(rule) :
                    Count(payloads, rule[i].payload_type) < rule[i].min_occurence)
                => last.status = NOT_SUPPORTED
            /\ ( /\ exchange_type = IKE_SA_INIT /\ is_request
                 /\ Count(payloads, SECURITY_ASSOCIATION) > 0
                 /\ Count(payloads, NONCE) > 0
                 /\ Count(payloads, KEY_EXCHANGE) = 0 )
                => last.status = NOT_SUPPORTED

\* an IKE_SA_INIT request with SECURITY_ASSOCIATION and NONCE, no
\* KEY_EXCHANGE, was parsed from the wire and rejected on the minimum
C3_Witness ==
    /\ ParsedBody /\ last.counted /\ last.status = NOT_SUPPORTED
    /\ exchange_type = IKE_SA_INIT /\ is_request
    /\ last.asked = <<SECURITY_ASSOCIATION, NONCE>>
    /\ Len(payloads) = 2
    /\ last.stop = [entry |-> 2, pos |-> 3, kind |-> "min"]

\* first rule entry, in table order, whose bounds the chain violates
FirstViolated(rule, chain) ==
    CHOOSE i \in 1..Len(rule) :
        /\ ~WithinBounds(chain, rule[i])
        /\ \A k \in 1..(i - 1) : WithinBounds(chain, rule[k])

\* C4 as stated: when the assembled chain holds more payloads of a rule
\* entry's type than the entry's maximum, parse_body fails with
\* NOT_SUPPORTED and the failure is raised in the counting pass exactly when
\* the occurrence of that type that first exceeds the maximum is counted.
C4_RaisedAtExceedingOccurrence ==
    (ParsedBody /\ last.counted) =>
        LET rule == CurrentRule.supported_payloads
        IN  \A i \in 1..Len(rule) :
                Count(payloads, rule[i].payload_type) > rule[i].max_occurence
                => /\ last.status = NOT_SUPPORTED
                   /\ last.stop =
                        [entry |-> i,
                         pos |-> PosOfNth(payloads, rule[i].payload_type,
                                          rule[i].max_occurence + 1),
                         kind |-> "max"]

\* C4 amended: the decode loop never fails on an occurrence count; when the
\* counting pass runs on a chain exceeding some entry's maximum, parse_body
\* fails with NOT_SUPPORTED, raised at the first rule entry in table order
\* whose bounds are violated: if that entry's maximum is exceeded, exactly
\* when the occurrence that first exceeds it is counted, otherwise at the
\* end of that entry's scan (minimum not reached).
C4_RaisedAtFirstViolatedEntry ==
    LET rule == CurrentRule.supported_payloads
    IN  /\ (ParsedBody /\ ~last.counted /\ last.status = NOT_SUPPORTED)
            => /\ last.visited # <<>>
               /\ last.visited[Len(last.visited)] \notin SupportedTypes(rule)
        /\ ( /\ ParsedBody /\ last.counted
             /\ \E i \in 1..Len(rule) :
                    Count(payloads, rule[i].payload_type) > rule[i].max_occurence )
            => LET f == FirstViolated(rule, payloads)
                   t == rule[f].payload_type
               IN  /\ last.status = NOT_SUPPORTED
                   /\ last.stop.entry = f
                   /\ IF Count(payloads, t) > rule[f].max_occurence
                      THEN /\ last.stop.kind = "max"
                           /\ last.stop.pos = PosOfNth(payloads, t, rule[f].max_occurence + 1)
                      ELSE /\ last.stop.kind = "min"
                           /\ last.stop.pos = Len(payloads) + 1

\* an IKE_SA_INIT request with two NONCE payloads was rejected when the
\* second NONCE was counted
C4_Witness ==
    /\ ParsedBody /\ last.counted /\ last.status = NOT_SUPPORTED
    /\ exchange_type = IKE_SA_INIT /\ is_request
    /\ Count(payloads, NONCE) = 2
    /\ last.stop = [entry |-> 3, pos |-> PosOfNth(payloads, NONCE, 2), kind |-> "max"]

\* C5: if the rule exists and the current payload type at some point of the
\* decode loop is not listed in it, parse_body fails with NOT_SUPPORTED
\* there: the parser is not asked for that type and no payload of that type
\* is among the payloads this call appended.
C5_UnknownTypeRejected ==
    (ParsedBody /\ CurrentRule.status = SUCCESS) =>
        LET rule == CurrentRule.supported_payloads
        IN  \A k \in 1..Len(last.visited) :
                last.visited[k] \notin SupportedTypes(rule)
                => /\ last.status = NOT_SUPPORTED
                   /\ k = Len(last.visited)
                   /\ Len(last.asked) = k - 1
                   /\ \A a \in 1..Len(last.asked) : last.asked[a] # last.visited[k]
                   /\ last.appended = k - 1
                   /\ \A j \in 1..Len(payloads) :
                        j > Len(payloads) - last.appended
                            => payloads[j].type # last.visited[k]

\* a decoded payload's next-type named a type outside the rule
C5_Witness ==
    /\ ParsedBody /\ last.status = NOT_SUPPORTED /\ ~last.counted
    /\ Len(last.visited) >= 2
    /\ last.visited[Len(last.visited)] = NOTIFY
    /\ last.appended = Len(last.visited) - 1

\* C6 as stated: parse_body on a message whose (exchange type, is-request)
\* has no rule fails with NOT_FOUND.
C6_NoRuleNotFound ==
    (ParsedBody /\ CurrentRule.status # SUCCESS) => last.status = NOT_FOUND

\* C6 amended: parse_body on a message whose (exchange type, is-request) has
\* no rule fails with FAILED, before the parser is asked to decode anything
\* and without changing the payload chain.
C6_NoRuleFailed ==
    [][ (last'.op = "parse_body" /\ CurrentRule.status # SUCCESS)
            => /\ last'.status = FAILED
               /\ last'.asked = <<>>
               /\ last'.visited = <<>>
               /\ parser' = parser
               /\ payloads' = payloads ]_vars

\* parse_body was refused for want of a rule although a payload was waiting
C6_Witness ==
    /\ ParsedBody /\ last.status = FAILED
    /\ exchange_type = IKE_AUTH
    /\ first_payload # NO_PAYLOAD
    /\ header_parsed

\* C9 as stated: parse_body never decodes a payload and never returns
\* success unless an earlier parse_header on the message returned success.
C9_NoDecodeWithoutHeader ==
    (ParsedBody /\ (last.appended > 0 \/ last.status = SUCCESS)) => header_parsed

\* C9 amended: parse_body never returns success unless an earlier
\* parse_header on the message returned success (it does decode payloads
\* without one, once add_payload has set the first payload type).
C9_NoSuccessWithoutHeader ==
    (ParsedBody /\ last.status = SUCCESS) => header_parsed

\* parse_body returned success after a successful parse_header
C9_Witness ==
    /\ ParsedBody /\ last.status = SUCCESS /\ header_parsed
    /\ last.asked = <<SECURITY_ASSOCIATION, KEY_EXCHANGE, NONCE>>

\* C10: whenever parse_header returns a failure, the exchange type, message
\* id, is-request flag, versions, first payload type and ike-sa-id are what
\* they were before the call and the header object has been released.
C10_HeaderFailureAtomic ==
    [][ (last'.op = "parse_header" /\ last'.status # SUCCESS)
            => /\ header_fields' = header_fields
               /\ ike_sa_id' = ike_sa_id
               /\ live'.ike_header = live.ike_header ]_vars

(* ========================= properties of generate ====================== *)
Types(chain) == [j \in 1..Len(chain) |-> chain[j].type]

\* the chain satisfies the rule registered for (et, req), if there is one
Conforms(chain, et, req) ==
    LET g == get_supported_payloads(et, req)
    IN  /\ g.status = SUCCESS
        /\ \A j \in 1..Len(chain) :
                chain[j].type \in SupportedTypes(g.supported_payloads)
        /\ \A i \in 1..Len(g.supported_payloads) :
                WithinBounds(chain, g.supported_payloads[i])

\* the generated packet was bound to a fresh message, whose header was
\* parsed and whose body has just been parsed into the empty chain
RoundTripDone ==
    /\ role = "receiver" /\ sent.valid /\ header_parsed
    /\ ParsedBody
    /\ last.appended = Len(payloads)

SameHeaderData ==
    /\ exchange_type = sent.exchange_type
    /\ message_id = sent.message_id
    /\ is_request = sent.is_request
    /\ ~ike_sa_id.null
    /\ ike_sa_id.initiator_spi = sent.ike_sa_id.initiator_spi
    /\ ike_sa_id.responder_spi = sent.ike_sa_id.responder_spi
    /\ ike_sa_id.is_initiator = sent.ike_sa_id.is_initiator

\* C1 as stated: for any message with exchange type, addresses and
\* ike-sa-id set and a chain of N valid payloads, generate followed by
\* parse_header and parse_body on a fresh message bound to the packet yields
\* success, the same payload types in the same order and the same exchange
\* type, message id, direction and ike-sa-id.
C1_RoundTrip ==
    RoundTripDone =>
        /\ last.status = SUCCESS
        /\ Types(payloads) = Types(sent.chain)
        /\ SameHeaderData

\* C1 amended: the header data always survive the round trip; parse_body
\* yields success and the same payload types in the same order provided the
\* generated chain conforms to the rule registered for the message's
\* exchange type and direction.
C1_RoundTripOfConformingChain ==
    RoundTripDone =>
        /\ SameHeaderData
        /\ Conforms(sent.chain, sent.exchange_type, sent.is_request)
            => /\ last.status = SUCCESS
               /\ Types(payloads) = Types(sent.chain)

\* a response with message id 1 and three payloads made the round trip
C1_Witness ==
    /\ RoundTripDone /\ last.status = SUCCESS
    /\ Len(payloads) = 3 /\ Types(payloads) = Types(sent.chain)
    /\ message_id = 1 /\ ~is_request /\ ~ike_sa_id.is_initiator

\* C7: generate on a message whose exchange type is undefined or whose
\* source or destination is unset fails with INVALID_STATE; nothing is
\* handed to the generator, the packet and its buffer stay as they are, no
\* packet is produced and the chain with its next-types is unchanged.
C7_GeneratePreconditions ==
    [][ ( /\ last'.op = "generate"
          /\ \/ exchange_type = EXCHANGE_TYPE_UNDEFINED
             \/ packet.source = NULL
             \/ packet.destination = NULL )
        => /\ last'.status = INVALID_STATE
           /\ last'.generated = <<>>
           /\ packet' = packet
           /\ out_packet' = out_packet
           /\ payloads' = payloads ]_vars

\* generate was refused on a message with an exchange type and a source but
\* no destination, holding payloads whose last next-type is stale
C7_Witness ==
    /\ last.op = "generate" /\ last.status = INVALID_STATE
    /\ exchange_type = IKE_SA_INIT
    /\ packet.source # NULL /\ packet.destination = NULL
    /\ Len(payloads) = 2 /\ payloads[2].next = NOTIFY
    /\ ~out_packet.produced

Linked(chain) ==
    /\ \A j \in 1..(Len(chain) - 1) : chain[j].next = chain[j + 1].type
    /\ Len(chain) > 0 => chain[Len(chain)].next = NO_PAYLOAD

\* C8: after generate returns success, every payload's next-type equals the
\* type of its successor in the chain and the last payload's next-type is
\* NO_PAYLOAD, whatever the next-types were before the call.
C8_ChainLinkage ==
    (last.op = "generate" /\ last.status = SUCCESS) => Linked(payloads)

\* generate succeeded on a chain of three payloads
C8_Witness ==
    /\ last.op = "generate" /\ last.status = SUCCESS
    /\ Len(payloads) = 3
    /\ Len(last.generated) = 4

(* ========================= ownership and lifetime ====================== *)
\* number of times destroy released the given object
Releases(obj, index) ==
    Cardinality({k \in 1..Len(last.released) :
                    last.released[k] = [obj |-> obj, index |-> index]})

\* C11: after any sequence of operations that ends with destroy, every
\* payload the message created by parsing or received through add_payload,
\* its packet and the packet's buffer, every ike-sa-id it created and its
\* parser have been released exactly once: nothing is lost and nothing is
\* released twice.
C11_ReleasedExactlyOnce ==
    last.op = "destroy" =>
        /\ heap.lost = {}
        /\ heap.twice = {}
        /\ \A j \in 1..Len(payloads) : Releases("payload", j) = 1
        /\ Releases("packet", 0) = 1
        /\ Releases("parser", 0) = 1
        /\ ~ike_sa_id.null => Releases("ike_sa_id", 0) = 1

\* C14: on a message whose exchange type is defined and whose source and
\* destination are set, generate runs to completion and returns a status,
\* also when no ike-sa-id was ever set on the message.
C14_GenerateReturnsStatus ==
    [][ ( /\ last'.op = "generate"
          /\ exchange_type # EXCHANGE_TYPE_UNDEFINED
          /\ packet.source # NULL /\ packet.destination # NULL )
        => /\ ~crashed'
           /\ last'.status \in {SUCCESS, FAILED, OUT_OF_RES, NOT_SUPPORTED,
                                INVALID_STATE, VERIFY_ERROR, PARSE_ERROR,
                                NOT_FOUND} ]_vars

(* ============================ empty chains ============================= *)
\* C12: when the first payload type is NO_PAYLOAD and the chain is empty,
\* parse_body decodes nothing; it succeeds if every entry of the applicable
\* rule has minimum occurrence 0 and fails with NOT_SUPPORTED if some entry
\* has a minimum occurrence greater than 0.
C12_EmptyChain ==
    [][ ( /\ last'.op = "parse_body"
          /\ first_payload = NO_PAYLOAD /\ payloads = <<>>
          /\ CurrentRule.status = SUCCESS )
        => LET rule == CurrentRule.supported_payloads
           IN  /\ last'.asked = <<>>
               /\ payloads' = <<>>
               /\ parser' = parser
               /\ (\A i \in 1..Len(rule) : rule[i].min_occurence = 0)
                    => last'.status = SUCCESS
               /\ (\E i \in 1..Len(rule) : rule[i].min_occurence > 0)
                    => last'.status = NOT_SUPPORTED ]_vars

\* parse_body passed a message without payloads under a rule of two entries
\* that both may be absent
C12_Witness ==
    /\ ParsedBody /\ last.status = SUCCESS /\ header_parsed
    /\ first_payload = NO_PAYLOAD /\ payloads = <<>>
    /\ CurrentRule.status = SUCCESS
    /\ Len(CurrentRule.supported_payloads) = 2
    /\ \A i \in 1..2 : CurrentRule.supported_payloads[i].min_occurence = 0

(* ============================= add_payload ============================= *)
\* first_payload names the first payload of the chain and every payload
\* but the last names its successor
FirstAndLinks(first, chain) ==
    /\ first = (IF Len(chain) > 0 THEN chain[1].type ELSE NO_PAYLOAD)
    /\ \A j \in 1..(Len(chain) - 1) : chain[j].next = chain[j + 1].type

\* C13: a successful add_payload appends the payload at the end of the
\* chain and leaves the earlier elements in place; on an empty chain the
\* first payload type becomes the appended payload's type, otherwise it is
\* unchanged and the previous last element's next-type becomes the appended
\* payload's type.  Hence on a message built by its owner the first payload
\* type is the type of the first element and every element but the last
\* has its successor's type as next-type.
C13_AddPayload ==
    [][ /\ (last'.op = "add_payload" /\ last'.status = SUCCESS)
            => LET n == Len(payloads)
               IN  /\ Len(payloads') = n + 1
                   /\ \A j \in 1..n :
                        /\ payloads'[j].type = payloads[j].type
                        /\ payloads'[j].valid = payloads[j].valid
                        /\ j < n => payloads'[j] = payloads[j]
                   /\ IF n = 0
                      THEN first_payload' = payloads'[1].type
                      ELSE /\ first_payload' = first_payload
                           /\ payloads'[n].next = payloads'[n + 1].type
        /\ (last'.op = "add_payload" /\ last'.status # SUCCESS)
            => /\ payloads' = payloads
               /\ first_payload' = first_payload
        /\ role' = "sender" => FirstAndLinks(first_payload', payloads') ]_vars

\* a third payload was added behind two others; its own next-type is still
\* the one it was built with
C13_Witness ==
    /\ role = "sender" /\ last.op = "add_payload" /\ last.status = SUCCESS
    /\ Len(payloads) = 3
    /\ payloads[2].next = payloads[3].type
    /\ payloads[3].next = NOTIFY /\ payloads[3].type = NONCE
    /\ first_payload = KEY_EXCHANGE

(* ====================== failures of the decode loop ==================== *)
\* the j-th payload a parse_body decodes from where the parser stands,
\* when asked for the given type
OnWire(psr, j, type) ==
    parse_payload([psr EXCEPT !.pos = psr.pos + (j - 1) * PayloadFields],
                  type, FALSE)

\* C15: when parse_body fails in its decode loop (inadmissible type, decode
\* failure or verification failure) or in the counting pass, the chain
\* afterwards is the chain before the call followed by exactly the payloads
\* that were decoded and verified before the failure, in wire order.
C15_NoRollback ==
    [][ (last'.op = "parse_body" /\ last'.step \in {"admit", "parse", "verify", "count"})
        => LET n == Len(payloads)
               k == Len(last'.asked)
                    - (IF last'.step \in {"parse", "verify"} THEN 1 ELSE 0)
           IN  /\ last'.status # SUCCESS
               /\ last'.appended = k
               /\ Len(payloads') = n + k
               /\ \A j \in 1..n : payloads'[j] = payloads[j]
               /\ \A j \in 1..k :
                    LET w == OnWire(parser, j, last'.asked[j])
                    IN  /\ w.status = SUCCESS
                        /\ verify(w.payload) = SUCCESS
                        /\ payloads'[n + j] = w.payload ]_vars

\* the third payload of a body failed verify(): the two before it stand
\* in the chain behind a payload that was added earlier
C15_Witness ==
    /\ ParsedBody /\ last.step = "verify" /\ last.status = VERIFY_ERROR
    /\ last.appended = 2 /\ Len(last.asked) = 3
    /\ Len(payloads) = 3
    /\ payloads[1].type = NOTIFY

\* C16: parse_body stops at the first failing step of its decode loop.  If
\* the parser fails to decode the current payload, parse_body returns the
\* parser's status; if the decoded payload's verify() fails, it returns
\* VERIFY_ERROR whatever verify() returned.  In both cases no further
\* payload is decoded, the failing payload is not appended and the counting
\* pass is not run.
C16_DecodeLoopErrors ==
    [][ (last'.op = "parse_body" /\ last'.step \in {"parse", "verify"})
        => LET k == last'.appended
               w == parse_payload([parser EXCEPT
                                      !.pos = parser.pos + k * PayloadFields],
                                  last'.asked[k + 1], faults' > faults)
           IN  /\ Len(last'.asked) = k + 1
               /\ \A j \in 1..k :
                    /\ OnWire(parser, j, last'.asked[j]).status = SUCCESS
                    /\ verify(OnWire(parser, j, last'.asked[j]).payload) = SUCCESS
               /\ IF last'.step = "parse"
                  THEN /\ w.status # SUCCESS
                       /\ last'.status = w.status
                  ELSE /\ w.status = SUCCESS
                       /\ verify(w.payload) # SUCCESS
                       /\ last'.status = VERIFY_ERROR
               /\ Len(payloads') = Len(payloads) + k
               /\ ~last'.counted
               /\ last'.stop = NoStop ]_vars

\* the parser could not decode the third payload of a body: the link of
\* the second one promises a payload that is not there
C16_Witness ==
    /\ ParsedBody /\ last.step = "parse" /\ last.status = PARSE_ERROR
    /\ last.appended = 2 /\ Len(last.asked) = 3
    /\ header_parsed /\ faults = 0

(* ======================== generate, step by step ======================= *)
\* C17: on a successful generate of a message with chain p1..pN the
\* generator receives exactly N+1 payloads, in the order header, p1, ...,
\* pN; when each is handed over, its next-type is already the type of the
\* payload that follows it (NO_PAYLOAD for the last one, and for the header
\* of an empty chain); the chain's membership and order are unchanged.
C17_SerializationOrder ==
    [][ (last'.op = "generate" /\ last'.status = SUCCESS)
        => LET n == Len(payloads)
               g == last'.generated
               follower(j) == IF j <= n THEN payloads[j].type ELSE NO_PAYLOAD
           IN  /\ Len(g) = n + 1
               /\ g[1].type = HEADER
               /\ g[1].next = follower(1)
               /\ \A j \in 1..n :
                    /\ g[j + 1].type = payloads[j].type
                    /\ g[j + 1].next = follower(j + 1)
               /\ Len(payloads') = n
               /\ \A j \in 1..n :
                    /\ payloads'[j].type = payloads[j].type
                    /\ payloads'[j].valid = payloads[j].valid ]_vars

\* three payloads whose next-types were stale went to the generator behind
\* the header
C17_Witness ==
    /\ last.op = "generate" /\ last.status = SUCCESS
    /\ Len(last.generated) = 4
    /\ last.generated[1] = [type |-> HEADER, next |-> NONCE]
    /\ last.generated[4] = [type |-> SECURITY_ASSOCIATION, next |-> NO_PAYLOAD]
    /\ first_payload = NONCE
    /\ out_packet.produced

\* C18: when the generator fails on a payload (the header, an inner payload
\* or the last one), generate hands it no further payload, returns the
\* generator's status and has by then released every transient object it
\* created: the header, the generator and the chain iterator.
C18_GenerateFailureCleanup ==
    [][ ( /\ last'.op = "generate"
          /\ last'.status \notin {SUCCESS, INVALID_STATE, SEGV}
          /\ Len(last'.generated) > 0 )
        => /\ last'.status = OUT_OF_RES
           /\ Len(last'.generated) <= Len(payloads) + 1
           /\ live' = live ]_vars

(* ========================== first payload type ========================= *)
\* the first payload type names the first payload of the chain
FirstIsChainHead ==
    first_payload = (IF Len(payloads) > 0 THEN payloads[1].type ELSE NO_PAYLOAD)

\* C19 as stated: in every reachable state of a message the first payload
\* type equals the type of the first payload of the chain when the chain is
\* not empty, and NO_PAYLOAD when it is empty.
C19_FirstPayloadInvariant == FirstIsChainHead

\* C19 amended: the first payload type equals the type of the first payload
\* of the chain (NO_PAYLOAD for an empty chain) in every state reached
\* before the first successful parse_header; a successful parse_header sets
\* it to the next-payload field of the header whatever the chain holds, and
\* parse_body never writes it.
C19_FirstPayloadUntilHeader ==
    /\ [](~header_parsed => FirstIsChainHead)
    /\ [][ /\ (last'.op = "parse_header" /\ last'.status = SUCCESS)
                => first_payload' =
                     parse_payload_header([parser EXCEPT !.pos = 0], FALSE).payload.next
           /\ last'.op = "parse_body" => first_payload' = first_payload ]_vars

\* no header was parsed; parse_body started from the type of a payload
\* that was added and appended a payload behind it
C19_Witness ==
    /\ ~header_parsed /\ ParsedBody /\ last.appended = 1
    /\ Len(payloads) = 2
    /\ first_payload = KEY_EXCHANGE /\ payloads[1].type = KEY_EXCHANGE

(* ============================ get_ike_sa_id ============================ *)
\* what get_ike_sa_id does on a message that holds an ike_sa_id: it hands
\* out a copy of its own and keeps its instance, or fails without handing
\* out anything
CopyHandedOut ==
    /\ last'.status \in {SUCCESS, OUT_OF_RES}
    /\ last'.status = SUCCESS
        => /\ last'.copy.handed
           /\ ~last'.copy.shared
           /\ last'.copy.id = ike_sa_id
    /\ last'.status # SUCCESS => last'.copy = NoCopy
    /\ ike_sa_id' = ike_sa_id

\* C20 as stated: get_ike_sa_id on a message on which no ike-sa-id has been
\* set fails with NOT_FOUND and hands no ike-sa-id to the caller; when one
\* is set it returns an independent copy and the message keeps its own.
C20_AbsentIdNotFound ==
    [][ last'.op = "get_ike_sa_id"
        => IF ike_sa_id.null
           THEN /\ last'.status = NOT_FOUND
                /\ last'.copy = NoCopy
                /\ ike_sa_id' = ike_sa_id
           ELSE CopyHandedOut ]_vars

\* C20 amended: get_ike_sa_id on a message that holds no ike-sa-id fails
\* with the generic FAILED status and hands no ike-sa-id to the caller;
\* when one is set it returns an independent copy (or fails for want of
\* resources, handing out nothing) and the message keeps its own instance.
C20_AbsentIdFailed ==
    [][ last'.op = "get_ike_sa_id"
        => IF ike_sa_id.null
           THEN /\ last'.status = FAILED
                /\ last'.copy = NoCopy
                /\ ike_sa_id' = ike_sa_id
           ELSE CopyHandedOut ]_vars

\* the ike-sa-id of a received message was asked for before its header
\* was parsed
C20_Witness ==
    /\ last.op = "get_ike_sa_id" /\ last.status = FAILED
    /\ ike_sa_id.null /\ ~last.copy.handed
    /\ role = "receiver" /\ ~header_parsed

(* ============================ destroy order ============================ *)
\* position at which destroy released the given object (0: not released)
ReleasedAt(obj, index) ==
    LET at == {k \in 1..Len(last.released) :
                  last.released[k] = [obj |-> obj, index |-> index]}
    IN  IF at = {} THEN 0 ELSE CHOOSE k \in at : \A m \in at : k <= m

\* C21: destroy releases, in this order, the packet, the ike-sa-id (only if
\* set), every payload of the chain (each once, in chain order), the chain
\* container, the parser and the logger; no payload is released after the
\* chain container.
C21_DestroyOrder ==
    last.op = "destroy" =>
        LET n == Len(payloads)
            base == IF ike_sa_id.null THEN 1 ELSE 2
        IN  /\ Len(last.released) = base + n + 3
            /\ ReleasedAt("packet", 0) = 1
            /\ ReleasedAt("ike_sa_id", 0) = (IF ike_sa_id.null THEN 0 ELSE 2)
            /\ \A j \in 1..n :
                 /\ ReleasedAt("payload", j) = base + j
                 /\ Releases("payload", j) = 1
                 /\ ReleasedAt("payload", j) < ReleasedAt("payloads", 0)
            /\ ReleasedAt("payloads", 0) = base + n + 1
            /\ ReleasedAt("parser", 0) = base + n + 2
            /\ ReleasedAt("logger", 0) = base + n + 3

\* a received message was destroyed after its header and the three
\* payloads of its body had been parsed
C21_Witness ==
    /\ last.op = "destroy"
    /\ header_parsed /\ ~ike_sa_id.null
    /\ Len(payloads) = 3
    /\ Len(last.released) = 8

(* ========================= order independence ========================== *)
\* the orders in which the elements of a sequence can be put on the wire
Reorderings(types) ==
    LET n == Len(types)
    IN  {[k \in 1..n |-> types[p[k]]] :
            p \in {q \in [1..n -> 1..n] : \A a, b \in 1..n : q[a] = q[b] => a = b}}

\* status of parse_body on a fresh message with the header of this one and a
\* body of the given types, all of which verify
FreshStatus(types) ==
    ParseBody(exchange_type, is_request, FirstType(types, NO_PAYLOAD),
              [parser EXCEPT
                  !.data = SubSeq(parser.data, 1, HeaderFields)
                           \o EncodeBody(LinkedBody(types, 0, NO_PAYLOAD)),
                  !.pos = HeaderFields],
              << >>, 0).out.status

\* parse_body has run on a message whose chain was empty and has decoded and
\* verified the whole body
DecodedWholeBody ==
    /\ ParsedBody /\ header_parsed
    /\ last.step \in {"none", "count"}
    /\ last.appended = Len(payloads)
    /\ parser.pos = Len(parser.data)

\* C22: two bodies that decode and verify completely and hold the same
\* multiset of payload types in different wire orders get the same status
\* from parse_body on a fresh message of the same exchange type and
\* direction: success for both or NOT_SUPPORTED for both.
C22_OrderIndependent ==
    DecodedWholeBody =>
        /\ last.status \in {SUCCESS, NOT_SUPPORTED}
        /\ FreshStatus(last.asked) = last.status
        /\ \A b \in Reorderings(last.asked) : FreshStatus(b) = last.status

\* a body of three payloads, two of one type around one of another, was
\* decoded completely and accepted
C22_Witness ==
    /\ DecodedWholeBody
    /\ last.status = SUCCESS
    /\ last.asked = << KEY_EXCHANGE, SECURITY_ASSOCIATION, KEY_EXCHANGE >>
    /\ Cardinality(Reorderings(last.asked)) = 3

(* ============================== re-parsing ============================= *)
\* chain a is the beginning of chain b
IsPrefix(a, b) == Len(a) <= Len(b) /\ SubSeq(b, 1, Len(a)) = a

\* C23: on a message under an IKE_SA_INIT rule, once parse_body has returned
\* success having decoded at least one payload, every later parse_body call
\* returns a failure, whether or not parse_header ran in between, and leaves
\* the chain the same or longer.
C23_NoSecondSuccess ==
    [][ (last'.op = "parse_body" /\ body_parsed = "decoded")
        => /\ last'.status # SUCCESS
           /\ IsPrefix(payloads, payloads') ]_vars

\* C23 as stated: the same after any success of parse_body, also one that
\* decoded nothing
C23_ReparseNeverSucceeds ==
    [][ (last'.op = "parse_body" /\ body_parsed # "never")
        => /\ last'.status # SUCCESS
           /\ IsPrefix(payloads, payloads') ]_vars

\* after a parse_body that decoded payloads and succeeded, the header was
\* parsed again and a further parse_body decoded the body a second time and
\* was refused by the counting pass
C23_Witness ==
    /\ ParsedBody /\ body_parsed = "decoded"
    /\ last.status = NOT_SUPPORTED /\ last.step = "count"
    /\ last.appended = 3
    /\ Len(payloads) = 6

====
